---------------------------- MODULE Spec2Model ----------------------------
(***************************************************************************)
(* A model of src/main.py: a LINE webhook (Flask) that, on a text message  *)
(* containing the trigger keyword, acknowledges with the reply token,      *)
(* fetches six Bitfinex funding quotes, renders a table image with icons,  *)
(* uploads it to Cloudinary and pushes the image (or a failure text) to    *)
(* the sender.                                                             *)
(*                                                                         *)
(* Two specifications.  Spec is the server with concurrently served        *)
(* requests (Flask serves each request on its own thread), over a few      *)
(* upstream scenarios.  SpecOne is one request alone over wide inputs:     *)
(* texts around the keyword, every subset of failing quotes and icons,     *)
(* every failure kind and a range of raw rates at each instrument.         *)
(*                                                                         *)
(* Text is modelled as a sequence of one-character strings.  The two       *)
(* characters of the trigger keyword (U+5229, U+7387) are written "li"     *)
(* and "lv".                                                               *)
(***************************************************************************)
EXTENDS Integers, Sequences, FiniteSets, TLC

(***************************************************************************)
(* Bounds of the model.                                                    *)
(***************************************************************************)
\* Number of webhook requests (each carries one text message event).
MaxRuns == 2

Runs == 1..MaxRuns

\* Python's None where an object may stand (a request, a figure, a file's
\* content); a file that overlapping writers left is Torn.
None == [none |-> TRUE]

Torn == [torn |-> TRUE]

\* No quote answer, no icon answer, no exception, no HTTP status, no URL yet.
NoAnswer == [kind |-> "none"]

NoIcon == "none"

NoError == "none"

NoStatus == "none"

NoUrl == <<>>

(***************************************************************************)
(* Text helpers: str.strip() and the substring test of `in`.               *)
(***************************************************************************)
IsSpace(c) == c = " "

RECURSIVE LStrip(_)
LStrip(s) ==
    IF s # <<>> /\ IsSpace(Head(s)) THEN LStrip(Tail(s)) ELSE s

RECURSIVE RStrip(_)
RStrip(s) ==
    IF s # <<>> /\ IsSpace(s[Len(s)]) THEN RStrip(SubSeq(s, 1, Len(s) - 1)) ELSE s

\* event.message.text.strip()
Strip(s) == RStrip(LStrip(s))

\* needle in hay (Python substring containment)
Contains(hay, needle) ==
    \E i \in 1..(Len(hay) - Len(needle) + 1) :
        SubSeq(hay, i, i + Len(needle) - 1) = needle

\* A faulty variant of the trigger test: equality instead of containment.
TriggersEq(user_msg) == user_msg = <<"li", "lv">>

\* "利率" in user_msg
Triggers(user_msg) == Contains(user_msg, <<"li", "lv">>)

(***************************************************************************)
(* symbols_info: the six instruments, in dict (insertion) order.           *)
(***************************************************************************)
symbols_info ==
    << [sym |-> "fUSD",  name |-> "USD",  icon |-> "usd.png"],
       [sym |-> "fUST",  name |-> "USDT", icon |-> "usdt.png"],
       [sym |-> "fXAUT", name |-> "XAUT", icon |-> "xaut.png"],
       [sym |-> "fBTC",  name |-> "BTC",  icon |-> "btc.png"],
       [sym |-> "fETH",  name |-> "ETH",  icon |-> "eth.png"],
       [sym |-> "fEUR",  name |-> "EUR",  icon |-> "eur.png"] >>

NumSymbols == Len(symbols_info)

(***************************************************************************)
(* Fixed-point formatting.  A raw rate is an integer n standing for        *)
(* n * 10^-8 (the JSON number at resp[0][3]).  rate = raw * 100 is then    *)
(* n * 10^-6.  f"{x:.kf}" rounds to k decimals; the raw rates of the       *)
(* model are chosen off the exact decimal ties, where the binary float     *)
(* decides the direction.                                                  *)
(***************************************************************************)
RECURSIVE Pow10(_)
Pow10(k) == IF k = 0 THEN 1 ELSE 10 * Pow10(k - 1)

\* a / d rounded to the nearest integer, ties to even (a >= 0, d > 0)
RoundDiv(a, d) ==
    LET q == a \div d
        rem == a % d
    IN  IF 2 * rem > d THEN q + 1
        ELSE IF 2 * rem < d THEN q
        ELSE IF q % 2 = 0 THEN q ELSE q + 1

DigitChar(d) == ToString(d)

RECURSIVE Digits(_)
\* the decimal digits of n >= 0, most significant first
Digits(n) == IF n < 10 THEN <<DigitChar(n)>>
             ELSE Append(Digits(n \div 10), DigitChar(n % 10))

RECURSIVE ZeroPad(_, _)
ZeroPad(s, k) == IF Len(s) >= k THEN s ELSE ZeroPad(<<"0">> \o s, k)

\* f"{v:.kf}" where v = units * 10^-k
FormatFixed(units, k) ==
    Digits(units \div Pow10(k)) \o <<".">> \o ZeroPad(Digits(units % Pow10(k)), k)

NA == <<"N", "/", "A">>

\* A faulty variant of APR: annualised from the displayed (rounded) daily value.
FormatAPRFromRounded(n) ==
    FormatFixed(RoundDiv(RoundDiv(n, 100) * 365, 100), 2) \o <<"%">>

\* f"{rate:.4f}%" with rate = raw * 100
FormatDaily(n) == FormatFixed(RoundDiv(n, 100), 4) \o <<"%">>

\* f"{rate*365:.2f}%" with rate = raw * 100
FormatAPR(n) == FormatFixed(RoundDiv(n * 365, 10000), 2) \o <<"%">>


(***************************************************************************)
(* The quote source.  A response of requests.get(...).json() is one of     *)
(*   [kind |-> "neterr"]   connection error raised by requests.get         *)
(*   [kind |-> "timeout"]  timeout=5 expired                               *)
(*   [kind |-> "badjson"]  .json() raises                                  *)
(*   [kind |-> "json", body |-> <<record, ...>>]  a JSON list of records,  *)
(* a record being a list of fields [t |-> "num", v |-> n] or               *)
(* [t |-> "null"].  A funding trade is [ID, MTS, AMOUNT, RATE, PERIOD].    *)
(***************************************************************************)
Num(n) == [t |-> "num", v |-> n]
Null == [t |-> "null"]

\* a well-formed answer carrying raw rate n
Trade(n) == [kind |-> "json", body |-> << <<Num(1), Num(2), Num(3), Num(n), Num(2)>> >>]
NetErr == [kind |-> "neterr"]
Timeout == [kind |-> "timeout"]
BadJson == [kind |-> "badjson"]
EmptyList == [kind |-> "json", body |-> <<>>]
ShortRecord == [kind |-> "json", body |-> << <<Num(1), Num(2), Num(3)>> >>]
NullRate == [kind |-> "json", body |-> << <<Num(1), Num(2), Num(3), Null, Num(2)>> >>]

\* Whether the try body of the loop raises: requests.get / .json() /
\* resp[0] / [3] / float(...)  (Python index 3 is the 4th field).
Raises(resp) ==
    \/ resp.kind # "json"
    \/ Len(resp.body) < 1
    \/ Len(resp.body[1]) < 4
    \/ resp.body[1][4].t # "num"

\* float(resp[0][3]), defined when ~Raises(resp)
RawRate(resp) == resp.body[1][4].v

\* The row of the except branch.
FailedRow(info) ==
    [Currency |-> info.name, Daily |-> NA, APR |-> NA, icon |-> info.icon]

\* The row of the try branch.
QuotedRow(info, n) ==
    [Currency |-> info.name, Daily |-> FormatDaily(n), APR |-> FormatAPR(n),
     icon |-> info.icon]

\* A faulty variant of the loop body: a failed instrument is skipped.
AppendResultSkipFailed(results, info, resp) ==
    IF Raises(resp) THEN results ELSE Append(results, QuotedRow(info, RawRate(resp)))

\* A faulty variant of the loop body: after a failure the row keeps the
\* previous row's values.
AppendResultStale(results, info, resp) ==
    IF Raises(resp)
    THEN IF results = <<>> THEN Append(results, FailedRow(info))
         ELSE Append(results, [results[Len(results)] EXCEPT !.Currency = info.name,
                                                            !.icon = info.icon])
    ELSE Append(results, QuotedRow(info, RawRate(resp)))

\* One iteration of the loop: results.append(...) in the try or the except branch.
AppendResult(results, info, resp) ==
    IF Raises(resp) THEN Append(results, FailedRow(info))
    ELSE Append(results, QuotedRow(info, RawRate(resp)))

(***************************************************************************)
(* get_icon: the icon source answers "png" (decodable image bytes),        *)
(* "garbage" (bytes Image.open cannot decode), "neterr" or "timeout".      *)
(***************************************************************************)
IconAnswers == {"png", "garbage", "neterr", "timeout"}

IconSize == <<120, 120>>

\* A faulty variant of get_icon without its try/except: a failed fetch or an
\* undecodable body raises out of get_icon.
get_iconNoCatch(name, url, answer, size) ==
    IF answer = "png"
    THEN [kind |-> "fetched", of |-> url, size |-> size]
    ELSE [kind |-> "raised", error |-> "IconError"]

get_icon(name, url, answer, size) ==
    IF answer = "png"
    THEN [kind |-> "fetched", of |-> url, size |-> size]
    ELSE [kind |-> "placeholder", rgba |-> <<200, 200, 200, 60>>, size |-> size]

(***************************************************************************)
(* A figure: the table's body cells and the icons added so far.            *)
(***************************************************************************)
RECURSIVE CellText(_)
\* df[['Currency', 'Daily', 'APR']].values
CellText(results) ==
    IF results = <<>> THEN <<>>
    ELSE <<[Currency |-> Head(results).Currency, Daily |-> Head(results).Daily,
            APR |-> Head(results).APR]>> \o CellText(Tail(results))

NewFigure(results) == [cells |-> CellText(results), artists |-> <<>>]

\* what plt.gcf() makes when no figure is open
BlankFigure == [cells |-> <<>>, artists |-> <<>>]


(***************************************************************************)
(* State.                                                                  *)
(*   pc        where each request's thread stands                          *)
(*   req       the request: signature validity and the event               *)
(*             {text, user_id, reply_token}                                *)
(*   quoteSrc  what the quote source answers this run, per instrument      *)
(*   iconSrc   what the icon source answers this run, per instrument       *)
(*   qi        instruments the quote loop has been through                 *)
(*   results   the list `results` of create_report_img                     *)
(*   fig       the figure object each run created (fig[0]: the figure      *)
(*             pyplot makes by itself when none is open)                   *)
(*   figstack  pyplot's open figures, the current one last (process-wide)  *)
(*   snap      the pixels savefig rendered, while it writes the file       *)
(*   file      line_report.png in the working directory (process-wide)     *)
(*   cdn       what each run's upload stored at the publisher              *)
(*   img_url   upload_result['secure_url']                                 *)
(*   err       the exception caught by `except Exception as e`             *)
(*   calls     every outbound call of the run, in order, with its outcome  *)
(*   http      the HTTP status answered to the webhook request             *)
(***************************************************************************)
VARIABLES pc, req, quoteSrc, iconSrc, qi, results, fig, figstack, snap, file,
          cdn, img_url, err, calls, http

vars == <<pc, req, quoteSrc, iconSrc, qi, results, fig, figstack, snap, file,
          cdn, img_url, err, calls, http>>


Init ==
    /\ pc = [r \in Runs |-> "idle"]
    /\ req = [r \in Runs |-> None]
    /\ quoteSrc = [r \in Runs |-> [i \in 1..NumSymbols |-> NoAnswer]]
    /\ iconSrc = [r \in Runs |-> [i \in 1..NumSymbols |-> NoIcon]]
    /\ qi = [r \in Runs |-> 0]
    /\ results = [r \in Runs |-> <<>>]
    /\ fig = [r \in Runs \cup {0} |-> None]
    /\ figstack = <<>>
    /\ snap = [r \in Runs |-> None]
    /\ file = [data |-> None, writers |-> {}, clash |-> FALSE]
    /\ cdn = [r \in Runs |-> None]
    /\ img_url = [r \in Runs |-> NoUrl]
    /\ err = [r \in Runs |-> NoError]
    /\ calls = [r \in Runs |-> <<>>]
    /\ http = [r \in Runs |-> NoStatus]

(***************************************************************************)
(* Inputs of the server with concurrent requests.                          *)
(***************************************************************************)
\* The keyword, and a text without it.
Texts == { <<"li", "lv">>, <<"x">> }

AllOf(x) == [i \in 1..NumSymbols |-> x]

MixedQuotes == <<Trade(10000), NetErr, Trade(12345), BadJson, ShortRecord, Trade(2738)>>

MixedIcons == <<"png", "garbage", "png", "timeout", "neterr", "png">>

QuoteScenarios == { AllOf(Trade(10000)), MixedQuotes }

IconScenarios == { AllOf("png"), MixedIcons }

(***************************************************************************)
(* Inputs of the single request: texts around the keyword, every subset    *)
(* of failing instruments, every kind of failure and a range of raw rates  *)
(* at each instrument, every subset of failing icons.                      *)
(***************************************************************************)
\* Raw rates 0..MaxRaw (in units of 10^-8) are enumerated.
MaxRaw == 1000

\* The keyword alone, inside other text, padded with spaces, and texts
\* without it (reversed, split, one character of it, a space, empty).
WideTexts ==
    { <<"li", "lv">>, <<"x", "li", "lv", "x">>, <<" ", "li", "lv", " ">>,
      <<"x">>, <<"lv", "li">>, <<"li", "x", "lv">>, <<"li">>, <<" ">>, <<>> }

\* f"{x:.4f}" and f"{x:.2f}" round the binary float; on an exact decimal tie
\* the float's error decides, so ties are left out of the enumerated rates.
OffTie(n) == n % 100 # 50 /\ (n * 365) % 10000 # 5000

RawRates == {n \in (0..MaxRaw) \cup {2738, 10000, 12345, 1234567, 5000000} : OffTie(n)}

QuoteFailures == {NetErr, Timeout, BadJson, EmptyList, ShortRecord, NullRate}

WideQuotes ==
    [1..NumSymbols -> {Trade(10000), Trade(12345), Timeout, EmptyList}]
    \cup { [AllOf(Trade(10000)) EXCEPT ![k] = a] :
             k \in 1..NumSymbols, a \in QuoteFailures \cup {Trade(n) : n \in RawRates} }

WideIcons ==
    [1..NumSymbols -> {"png", "garbage"}]
    \cup { [AllOf("png") EXCEPT ![k] = a] : k \in 1..NumSymbols, a \in IconAnswers }

\* The upstream answers of the single request: the quotes vary with the
\* icons all served, or the icons vary with the quotes all served.
WideWorlds ==
    { [quotes |-> q, icons |-> AllOf("png")] : q \in WideQuotes }
    \cup { [quotes |-> AllOf(Trade(10000)), icons |-> c] : c \in WideIcons }

Event(r, text) ==
    [text |-> text, user_id |-> <<"user", r>>, reply_token |-> <<"token", r>>]

(***************************************************************************)
(* A POST /callback arrives, carrying one text message event.              *)
(***************************************************************************)
Arrive(r, sig_ok, text) ==
    /\ pc[r] = "idle"
    /\ pc' = [pc EXCEPT ![r] = "callback"]
    /\ req' = [req EXCEPT ![r] = [sig_ok |-> sig_ok, event |-> Event(r, text)]]
    /\ UNCHANGED <<quoteSrc, iconSrc, qi, results, fig, figstack, snap, file,
                   cdn, img_url, err, calls, http>>

Request(r) == \E sig_ok \in BOOLEAN, text \in Texts : Arrive(r, sig_ok, text)

RequestWide(r) == \E sig_ok \in BOOLEAN, text \in WideTexts : Arrive(r, sig_ok, text)

\* A faulty variant of the webhook: the signature is not verified.
AfterVerifyUnchecked(sig_ok) == "handle_message"

\* handler.handle raises InvalidSignatureError (then abort(400)) or goes on
\* to call handle_message
AfterVerify(sig_ok) == IF sig_ok THEN "handle_message" ELSE "abort"

(***************************************************************************)
(* callback(): handler.handle(body, signature) verifies the signature;     *)
(* InvalidSignatureError becomes abort(400), otherwise handle_message is   *)
(* called on the same thread, inside handler.handle.                       *)
(***************************************************************************)
Callback(r) ==
    /\ pc[r] = "callback"
    /\ IF AfterVerify(req[r].sig_ok) = "handle_message"
       THEN /\ pc' = [pc EXCEPT ![r] = "handle_message"]
            /\ http' = http
       ELSE /\ pc' = [pc EXCEPT ![r] = "done"]
            /\ http' = [http EXCEPT ![r] = "400"]
    /\ UNCHANGED <<req, quoteSrc, iconSrc, qi, results, fig, figstack, snap,
                   file, cdn, img_url, err, calls>>

\* A faulty variant of the handler: the report is built before the acknowledgement.
FirstStepPipeline == "quote"

\* The first statement under `if "..." in user_msg`: the acknowledgement.
FirstStep == "reply"

(***************************************************************************)
(* handle_message(): strip the text and test the keyword.  When the run    *)
(* starts, the answers the upstream services will give it are fixed.       *)
(***************************************************************************)
Dispatch(r, quotes, icons) ==
    /\ pc[r] = "handle_message"
    /\ IF Triggers(Strip(req[r].event.text))
       THEN /\ pc' = [pc EXCEPT ![r] = FirstStep]
            /\ quoteSrc' = [quoteSrc EXCEPT ![r] = quotes]
            /\ iconSrc' = [iconSrc EXCEPT ![r] = icons]
       ELSE /\ pc' = [pc EXCEPT ![r] = "return"]
            /\ UNCHANGED <<quoteSrc, iconSrc>>
    /\ UNCHANGED <<req, qi, results, fig, figstack, snap, file, cdn, img_url,
                   err, calls, http>>

HandleMessage(r) ==
    \E quotes \in QuoteScenarios, icons \in IconScenarios : Dispatch(r, quotes, icons)

\* With a text other than the bare keyword the upstream answers are the
\* plain ones: the texts vary, or the answers do.
HandleMessageWide(r) ==
    /\ pc[r] = "handle_message"
    /\ \E w \in WideWorlds :
        /\ req[r].event.text # <<"li", "lv">> =>
              w = [quotes |-> AllOf(Trade(10000)), icons |-> AllOf("png")]
        /\ Dispatch(r, w.quotes, w.icons)

Log(r, entry) == [calls EXCEPT ![r] = Append(@, entry)]

AckText == "ack"

\* A faulty variant of the acknowledgement: its exception is swallowed.
AfterReplySwallowed(ok) == "quote"

\* reply_message returned (the try block is entered) or raised (nothing
\* catches it)
AfterReply(ok) == IF ok THEN "quote" ELSE "raise"

(***************************************************************************)
(* line_bot_api.reply_message(event.reply_token, TextSendMessage(...)).    *)
(* It stands before the try: when it raises, the exception leaves          *)
(* handle_message and callback.                                            *)
(***************************************************************************)
Reply(r) ==
    /\ pc[r] = "reply"
    /\ \E ok \in BOOLEAN :
        /\ calls' = Log(r, [api |-> "reply_message", to |-> req[r].event.reply_token,
                            msg |-> [type |-> "text", text |-> AckText], ok |-> ok])
        /\ pc' = [pc EXCEPT ![r] = AfterReply(ok)]
    /\ UNCHANGED <<req, quoteSrc, iconSrc, qi, results, fig, figstack, snap,
                   file, cdn, img_url, err, http>>

\* A faulty variant of the quote loop: an instrument whose request failed is
\* requested again.
NextInstrumentRetry(i, resp) == IF Raises(resp) THEN i - 1 ELSE i

\* `for sym, info in symbols_info.items()`: after instrument i, whatever its
\* request gave, the loop has been through i instruments.
NextInstrument(i, resp) == i

(***************************************************************************)
(* One iteration of `for sym, info in symbols_info.items()`: one GET to    *)
(* the quote source, one row appended.                                     *)
(***************************************************************************)
Quote(r) ==
    /\ pc[r] = "quote"
    /\ qi[r] < NumSymbols
    /\ LET i == qi[r] + 1
           info == symbols_info[i]
           resp == quoteSrc[r][i]
       IN  /\ calls' = Log(r, [api |-> "quote", sym |-> info.sym,
                               ok |-> ~Raises(resp)])
           /\ results' = [results EXCEPT ![r] = AppendResult(@, info, resp)]
           /\ qi' = [qi EXCEPT ![r] = NextInstrument(i, resp)]
           /\ pc' = [pc EXCEPT ![r] = IF NextInstrument(i, resp) = NumSymbols
                                      THEN "draw" ELSE "quote"]
    /\ UNCHANGED <<req, quoteSrc, iconSrc, fig, figstack, snap, file, cdn,
                   img_url, err, http>>

\* A faulty variant of create_report_img: it returns the path after the icon
\* loop without having saved the figure.
AfterIconsNoSave == "upload"

\* the statement after the icon loop: plt.savefig
AfterIcons == "savefig"

(***************************************************************************)
(* df = pd.DataFrame(results); plt.subplots makes a new figure and makes   *)
(* it pyplot's current one; ax.table(...); fig.canvas.draw().              *)
(***************************************************************************)
Draw(r) ==
    /\ pc[r] = "draw"
    /\ fig' = [fig EXCEPT ![r] = NewFigure(results[r])]
    /\ figstack' = Append(figstack, r)
    /\ pc' = [pc EXCEPT ![r] = IF Len(results[r]) = 0 THEN AfterIcons ELSE "icon"]
    /\ UNCHANGED <<req, quoteSrc, iconSrc, qi, results, snap, file, cdn,
                   img_url, err, calls, http>>

\* The instrument a row's icon URL belongs to.
IconIndex(url) == CHOOSE i \in 1..NumSymbols : symbols_info[i].icon = url

(***************************************************************************)
(* One iteration of `for i, row in df.iterrows()`: get_icon (one GET to    *)
(* the icon source) and ax.add_artist on the run's own axes.  The loop is  *)
(* inside handle_message's try: an exception coming out of get_icon would  *)
(* reach its except clause.                                                *)
(***************************************************************************)
Icon(r) ==
    /\ pc[r] = "icon"
    /\ LET i == Len(fig[r].artists) + 1
           row == results[r][i]
           answer == iconSrc[r][IconIndex(row.icon)]
           img_icon == get_icon(row.Currency, row.icon, answer, IconSize)
       IN  /\ calls' = Log(r, [api |-> "icon", url |-> row.icon, ok |-> answer = "png"])
           /\ IF img_icon.kind = "raised"
              THEN /\ err' = [err EXCEPT ![r] = img_icon.error]
                   /\ pc' = [pc EXCEPT ![r] = "except"]
                   /\ fig' = fig
              ELSE /\ fig' = [fig EXCEPT ![r].artists =
                                  Append(@, [img |-> img_icon, at |-> i - 1])]
                   /\ pc' = [pc EXCEPT ![r] = IF i = Len(results[r]) THEN AfterIcons
                                              ELSE "icon"]
                   /\ err' = err
    /\ UNCHANGED <<req, quoteSrc, iconSrc, qi, results, figstack, snap, file,
                   cdn, img_url, http>>


Last(q) == q[Len(q)]

(***************************************************************************)
(* plt.savefig("line_report.png", ...): renders pyplot's CURRENT figure    *)
(* (plt.gcf(), which opens a blank one when none is open) and opens the    *)
(* fixed path for writing, truncating it.  The path is the same for every  *)
(* run.  An OSError here is caught by handle_message's try.                *)
(***************************************************************************)
SavefigOpen(r) ==
    /\ pc[r] = "savefig"
    /\ LET none_open == figstack = <<>>
           stack == IF none_open THEN <<0>> ELSE figstack
           figs == IF none_open THEN [fig EXCEPT ![0] = BlankFigure] ELSE fig
       IN  /\ figstack' = stack
           /\ fig' = figs
           /\ \E ok \in BOOLEAN :
                IF ok
                THEN /\ snap' = [snap EXCEPT ![r] = figs[Last(stack)]]
                     /\ file' = [data |-> Torn,
                                 writers |-> file.writers \cup {r},
                                 clash |-> file.clash \/ file.writers # {}]
                     /\ pc' = [pc EXCEPT ![r] = "savefig_write"]
                     /\ err' = err
                ELSE /\ err' = [err EXCEPT ![r] = "OSError"]
                     /\ pc' = [pc EXCEPT ![r] = "except"]
                     /\ UNCHANGED <<snap, file>>
    /\ UNCHANGED <<req, quoteSrc, iconSrc, qi, results, cdn, img_url, calls, http>>

(***************************************************************************)
(* savefig finishes writing and closes the file.  Writers that overlapped  *)
(* on the one path leave a file that is no run's image.                    *)
(***************************************************************************)
SavefigWrite(r) ==
    /\ pc[r] = "savefig_write"
    /\ LET left == file.writers \ {r}
       IN  file' = [data |-> IF file.clash THEN Torn ELSE snap[r],
                    writers |-> left,
                    clash |-> file.clash /\ left # {}]
    /\ snap' = [snap EXCEPT ![r] = None]
    /\ pc' = [pc EXCEPT ![r] = "close"]
    /\ UNCHANGED <<req, quoteSrc, iconSrc, qi, results, fig, figstack, cdn,
                   img_url, err, calls, http>>

(***************************************************************************)
(* plt.close(): closes pyplot's current figure; return report_path.        *)
(***************************************************************************)
Close(r) ==
    /\ pc[r] = "close"
    /\ figstack' = IF figstack = <<>> THEN figstack
                   ELSE SubSeq(figstack, 1, Len(figstack) - 1)
    /\ pc' = [pc EXCEPT ![r] = "upload"]
    /\ UNCHANGED <<req, quoteSrc, iconSrc, qi, results, fig, snap, file, cdn,
                   img_url, err, calls, http>>

\* A faulty variant of the handler: the upload's exception is swallowed and the
\* image is pushed all the same.
AfterUploadIgnoreError(ok) == "push_image"

\* upload returned (then push the image) or raised (then the except clause)
AfterUpload(ok) == IF ok THEN "push_image" ELSE "except"

(***************************************************************************)
(* cloudinary.uploader.upload(path): reads whatever the path holds now.    *)
(***************************************************************************)
Upload(r) ==
    /\ pc[r] = "upload"
    /\ \E ok \in BOOLEAN :
        /\ calls' = Log(r, [api |-> "upload", ok |-> ok])
        /\ cdn' = [cdn EXCEPT ![r] = IF ok THEN file.data ELSE @]
        /\ img_url' = [img_url EXCEPT ![r] = IF ok THEN <<"secure_url", r>> ELSE @]
        /\ err' = [err EXCEPT ![r] = IF ok THEN @ ELSE "UploadError"]
        /\ pc' = [pc EXCEPT ![r] = AfterUpload(ok)]
    /\ UNCHANGED <<req, quoteSrc, iconSrc, qi, results, fig, figstack, snap,
                   file, http>>

\* A faulty variant of the handler: the failure text is sent in a `finally`,
\* so also after a delivered image.
AfterPushImageAlways(ok) == "except"

\* push returned (the handler is through) or raised (then the except clause)
AfterPushImage(ok) == IF ok THEN "return" ELSE "except"

\* A faulty variant of the delivery: the image is sent with the reply token.
ImageTargetToken(event) == event.reply_token

\* the first argument of push_message in the try block: user_id
ImageTarget(event) == event.user_id

(***************************************************************************)
(* line_bot_api.push_message(user_id, ImageSendMessage(img_url, img_url)). *)
(***************************************************************************)
PushImage(r) ==
    /\ pc[r] = "push_image"
    /\ \E ok \in BOOLEAN :
        /\ calls' = Log(r, [api |-> "push_message", to |-> ImageTarget(req[r].event),
                            msg |-> [type |-> "image", url |-> img_url[r]], ok |-> ok])
        /\ err' = [err EXCEPT ![r] = IF ok THEN @ ELSE "LineBotApiError"]
        /\ pc' = [pc EXCEPT ![r] = AfterPushImage(ok)]
    /\ UNCHANGED <<req, quoteSrc, iconSrc, qi, results, fig, figstack, snap,
                   file, cdn, img_url, http>>

\* A faulty variant of the except clause: the failure text goes to the reply token.
FailureTargetToken(event) == event.reply_token

\* the first argument of push_message in the except clause: user_id
FailureTarget(event) == event.user_id

(***************************************************************************)
(* except Exception as e: push_message(user_id, TextSendMessage(error_msg))*)
(* It stands outside any try: when it raises, the exception leaves         *)
(* handle_message and callback.                                            *)
(***************************************************************************)
PushFailure(r) ==
    /\ pc[r] = "except"
    /\ \E ok \in BOOLEAN :
        /\ calls' = Log(r, [api |-> "push_message", to |-> FailureTarget(req[r].event),
                            msg |-> [type |-> "text", text |-> err[r]], ok |-> ok])
        /\ pc' = [pc EXCEPT ![r] = IF ok THEN "return" ELSE "raise"]
    /\ UNCHANGED <<req, quoteSrc, iconSrc, qi, results, fig, figstack, snap,
                   file, cdn, img_url, err, http>>

(***************************************************************************)
(* callback() answers: 'OK' once handler.handle has returned, or Flask's   *)
(* 500 when an exception other than InvalidSignatureError came out of it.  *)
(***************************************************************************)
Respond(r) ==
    /\ pc[r] \in {"return", "raise"}
    /\ http' = [http EXCEPT ![r] = IF pc[r] = "return" THEN "200" ELSE "500"]
    /\ pc' = [pc EXCEPT ![r] = "done"]
    /\ UNCHANGED <<req, quoteSrc, iconSrc, qi, results, fig, figstack, snap,
                   file, cdn, img_url, err, calls>>

Step(r) ==
    \/ Callback(r)
    \/ HandleMessage(r)
    \/ Reply(r)
    \/ Quote(r)
    \/ Draw(r)
    \/ Icon(r)
    \/ SavefigOpen(r)
    \/ SavefigWrite(r)
    \/ Close(r)
    \/ Upload(r)
    \/ PushImage(r)
    \/ PushFailure(r)
    \/ Respond(r)

(***************************************************************************)
(* The server: app.run(...) serves each request on a thread of its own,    *)
(* so the steps of different requests interleave.                          *)
(***************************************************************************)
Next == \E r \in Runs : Request(r) \/ Step(r)

Spec == Init /\ [][Next]_vars

(***************************************************************************)
(* One request alone, over the wide inputs.                                *)
(***************************************************************************)
FirstRun == CHOOSE r \in Runs : \A o \in Runs : r <= o

StepWide(r) ==
    \/ Callback(r)
    \/ HandleMessageWide(r)
    \/ Reply(r)
    \/ Quote(r)
    \/ Draw(r)
    \/ Icon(r)
    \/ SavefigOpen(r)
    \/ SavefigWrite(r)
    \/ Close(r)
    \/ Upload(r)
    \/ PushImage(r)
    \/ PushFailure(r)
    \/ Respond(r)

NextOne == RequestWide(FirstRun) \/ StepWide(FirstRun)

SpecOne == Init /\ [][NextOne]_vars


(***************************************************************************)
(* Reading the call log.                                                   *)
(***************************************************************************)
IsNetwork(c) == c.api \in {"quote", "icon", "upload"}

Pushes(r) == SelectSeq(calls[r], LAMBDA c : c.api = "push_message")

Replies(r) == SelectSeq(calls[r], LAMBDA c : c.api = "reply_message")

UploadFailed(r) == \E k \in 1..Len(calls[r]) : calls[r][k].api = "upload" /\ ~calls[r][k].ok

\* The keyword occurs in the text somewhere.
HasKeyword(text) == \E i \in 1..(Len(text) - 1) : text[i] = "li" /\ text[i + 1] = "lv"

\* The request is validly signed and carries the command.
IsCommand(r) == req[r] # None /\ req[r].sig_ok /\ HasKeyword(req[r].event.text)

\* handle_message is through (returned or raised).
HandlerOver(r) == pc[r] \in {"return", "raise", "done"}

(***************************************************************************)
(* C1.  In every run, every call to the quote source, an icon source or    *)
(* the publisher is preceded, in that run's call order, by a reply_message *)
(* to the run's reply token that succeeded.                                *)
(***************************************************************************)
C1_AckBeforeNetwork ==
    \A r \in Runs : \A k \in 1..Len(calls[r]) :
        IsNetwork(calls[r][k]) =>
            \E j \in 1..(k - 1) :
                /\ calls[r][j].api = "reply_message"
                /\ calls[r][j].to = <<"token", r>>
                /\ calls[r][j].ok

\* A run that has called the quote source, the icon source and the publisher.
C1_Witness ==
    \E r \in Runs : \A a \in {"quote", "icon", "upload"} :
        \E k \in 1..Len(calls[r]) : calls[r][k].api = a

(***************************************************************************)
(* C2.  The pipeline runs outside the webhook's response path: as long as  *)
(* the callback has not answered a request, none of that request's         *)
(* pipeline steps has run (no quote, icon or upload call, no figure, no    *)
(* final push).                                                            *)
(***************************************************************************)
C2_PipelineNotInline ==
    \A r \in Runs :
        http[r] = NoStatus =>
            /\ \A k \in 1..Len(calls[r]) : calls[r][k].api = "reply_message"
            /\ fig[r] = None


(***************************************************************************)
(* Reading rows.                                                           *)
(***************************************************************************)
\* The quote source's answer is a list whose first record has a numeric
\* fourth field.
QuoteFetched(a) ==
    /\ a.kind = "json"
    /\ a.body # <<>>
    /\ Len(a.body[1]) >= 4
    /\ a.body[1][4].t = "num"

IsDigit(c) == \E d \in 0..9 : ToString(d) = c

DigitValue(c) == CHOOSE d \in 0..9 : ToString(d) = c

RECURSIVE NatOf(_)
NatOf(s) == IF s = <<>> THEN 0
            ELSE NatOf(SubSeq(s, 1, Len(s) - 1)) * 10 + DigitValue(s[Len(s)])

\* s reads d...d.dd..d% with exactly k digits after the point
IsPercent(s, k) ==
    /\ Len(s) >= k + 3
    /\ s[Len(s)] = "%"
    /\ s[Len(s) - k - 1] = "."
    /\ \A j \in 1..(Len(s) - 1) : j # Len(s) - k - 1 => IsDigit(s[j])

\* the number s shows, in units of 10^-k
Shown(s, k) ==
    NatOf(SubSeq(s, 1, Len(s) - k - 2) \o SubSeq(s, Len(s) - k, Len(s) - 1))

\* u is x / d rounded to the nearest integer
Nearest(u, x, d) == 2 * (u * d - x) < d /\ 2 * (x - u * d) < d

Names == <<"USD", "USDT", "XAUT", "BTC", "ETH", "EUR">>

(***************************************************************************)
(* C3.  The rows grow by one per instrument gone through, and the row-set  *)
(* handed to the renderer (the finished list, and the table of the figure  *)
(* drawn from it) has exactly the six rows USD, USDT, XAUT, BTC, ETH, EUR  *)
(* in that order, whichever quote fetches failed.                          *)
(***************************************************************************)
C3_RowSet ==
    \A r \in Runs :
        /\ Len(results[r]) = qi[r]
        /\ \A i \in 1..Len(results[r]) : results[r][i].Currency = Names[i]
        /\ pc[r] = "draw" => Len(results[r]) = 6
        /\ fig[r] # None =>
              /\ Len(fig[r].cells) = 6
              /\ \A i \in 1..6 : fig[r].cells[i].Currency = Names[i]

\* A figure drawn in a run where some quote fetches failed and some did not.
C3_Witness ==
    \E r \in Runs :
        /\ fig[r] # None
        /\ \E i, j \in 1..6 : ~QuoteFetched(quoteSrc[r][i]) /\ QuoteFetched(quoteSrc[r][j])

C5_UploadsOwnArtifact ==
    \A r \in Runs : cdn[r] # None => cdn[r] = fig[r]

(***************************************************************************)
(* C6.  After a validly signed command, once the run is over the user has  *)
(* received the image message or a failure text addressed to the sender    *)
(* id.                                                                     *)
(***************************************************************************)
C6_FinalResponse ==
    \A r \in Runs :
        (IsCommand(r) /\ pc[r] = "done") =>
            \E k \in 1..Len(Pushes(r)) :
                /\ Pushes(r)[k].to = <<"user", r>>
                /\ Pushes(r)[k].ok


(***************************************************************************)
(* C7.  A validly signed text message starts the pipeline exactly when its *)
(* text contains the keyword: with the keyword the acknowledgement is the  *)
(* first call made; without it the handler returns having made no call     *)
(* (no reply, no push, no quote, icon or upload) and having changed        *)
(* nothing (no rows, no figure, no file, nothing published).               *)
(***************************************************************************)
C7_TriggerIffKeyword ==
    \A r \in Runs :
        (req[r] # None /\ req[r].sig_ok /\ pc[r] \notin {"callback", "handle_message"}) =>
            IF HasKeyword(req[r].event.text)
            THEN /\ pc[r] # "reply" => calls[r] # <<>>
                 /\ calls[r] # <<>> => calls[r][1].api = "reply_message"
            ELSE /\ calls[r] = <<>>
                 /\ pc[r] \in {"return", "done"}
                 /\ results[r] = <<>> /\ fig[r] = None /\ cdn[r] = None
                 /\ err[r] = NoError
                 /\ figstack = <<>> /\ file.data = None
                 /\ http[r] \in {NoStatus, "200"}

\* The keyword inside a longer text has started the pipeline.
C7_Witness ==
    \E r \in Runs :
        /\ req[r] # None
        /\ req[r].event.text = <<"x", "li", "lv", "x">>
        /\ \E k \in 1..Len(calls[r]) : calls[r][k].api = "quote"

(***************************************************************************)
(* C8 as stated.  Over a run, reply_message is invoked at most once and    *)
(* push_message is invoked at most once.                                   *)
(***************************************************************************)
C8_AtMostOneReplyOnePush ==
    \A r \in Runs : Len(Replies(r)) <= 1 /\ Len(Pushes(r)) <= 1

(***************************************************************************)
(* C8 as amended.  Over a run, reply_message is invoked at most once;      *)
(* push_message is invoked at most twice and at most one invocation        *)
(* succeeds; a second invocation is the failure text, and is made only     *)
(* after the image push raised.                                            *)
(***************************************************************************)
C8_AtMostOneDeliveredPush ==
    \A r \in Runs :
        /\ Len(Replies(r)) <= 1
        /\ Len(Pushes(r)) <= 2
        /\ Cardinality({k \in 1..Len(Pushes(r)) : Pushes(r)[k].ok}) <= 1
        /\ Len(Pushes(r)) = 2 =>
              /\ Pushes(r)[1].msg.type = "image" /\ ~Pushes(r)[1].ok
              /\ Pushes(r)[2].msg.type = "text"

\* The image push raised and the failure text was pushed after it.
C8_Witness ==
    \E r \in Runs : Len(Replies(r)) = 1 /\ Len(Pushes(r)) = 2

(***************************************************************************)
(* C9.  Exactly the instruments whose quote fetch failed show "N/A" for    *)
(* Daily and APR, every other row shows the numbers of its fetched rate,   *)
(* and no quote failure fails the run: an exception is met only after all  *)
(* six rows are there and the figure is drawn.                             *)
(***************************************************************************)
C9_QuoteFailureIsolated ==
    \A r \in Runs :
        /\ \A i \in 1..Len(results[r]) :
              LET row == results[r][i]
                  a == quoteSrc[r][i]
              IN  IF QuoteFetched(a)
                  THEN /\ IsPercent(row.Daily, 4) /\ IsPercent(row.APR, 2)
                       /\ Nearest(Shown(row.Daily, 4), a.body[1][4].v, 100)
                       /\ Nearest(Shown(row.APR, 2), a.body[1][4].v * 365, 10000)
                  ELSE row.Daily = <<"N", "/", "A">> /\ row.APR = <<"N", "/", "A">>
        /\ qi[r] > 0 => Len(results[r]) = qi[r]
        /\ (err[r] # NoError \/ pc[r] = "except") =>
              Len(results[r]) = 6 /\ fig[r] # None

\* Every quote fetch failed, and the image was delivered all the same.
C9_Witness ==
    \E r \in Runs :
        /\ pc[r] = "done"
        /\ \A i \in 1..6 : ~QuoteFetched(quoteSrc[r][i])
        /\ \E k \in 1..Len(Pushes(r)) : Pushes(r)[k].msg.type = "image" /\ Pushes(r)[k].ok

(***************************************************************************)
(* C10.  In every row Daily and APR are both "N/A" or both numeric.  With  *)
(* a fetched raw rate, Daily shows raw x 100 to 4 decimals and APR shows   *)
(* raw x 100 x 365 to 2 decimals (raw 0.0001: "0.0100%" and "3.65%").      *)
(* Raw rates are in units of 10^-8; Daily in 10^-4, APR in 10^-2.          *)
(***************************************************************************)
C10_DailyAndAPR ==
    \A r \in Runs : \A i \in 1..Len(results[r]) :
        LET row == results[r][i]
            a == quoteSrc[r][i]
            n == a.body[1][4].v
        IN  /\ (row.Daily = <<"N", "/", "A">>) <=> (row.APR = <<"N", "/", "A">>)
            /\ row.Daily = <<"N", "/", "A">> \/ IsPercent(row.Daily, 4)
            /\ row.APR = <<"N", "/", "A">> \/ IsPercent(row.APR, 2)
            /\ QuoteFetched(a) =>
                  /\ IsPercent(row.Daily, 4)
                  /\ Nearest(Shown(row.Daily, 4), n, 100)
                  /\ IsPercent(row.APR, 2)
                  /\ Nearest(Shown(row.APR, 2), n * 365, 10000)
                  /\ n = 10000 =>
                        /\ row.Daily = <<"0", ".", "0", "1", "0", "0", "%">>
                        /\ row.APR = <<"3", ".", "6", "5", "%">>

\* A row whose APR differs from 365 times its displayed Daily:
\* raw 0.00012345 shows Daily "0.0123%" and APR "4.51%".
C10_Witness ==
    \E r \in Runs : \E i \in 1..Len(results[r]) :
        /\ quoteSrc[r][i] = Trade(12345)
        /\ results[r][i].Daily = <<"0", ".", "0", "1", "2", "3", "%">>
        /\ results[r][i].APR = <<"4", ".", "5", "1", "%">>

\* The icon calls of the run's log.
IconCalls(r) == SelectSeq(calls[r], LAMBDA c : c.api = "icon")

(***************************************************************************)
(* C11.  Every get_icon call gives back an image of the requested size     *)
(* 120 x 120: the fetched icon when the icon source served decodable       *)
(* bytes, the gray placeholder for a network error, a timeout or           *)
(* undecodable bytes.  So every icon request of a run has put one image on *)
(* the figure, no icon outcome is the exception the run fails with, and    *)
(* the artifact that is written and uploaded carries one image per row,    *)
(* whichever subset of the icons was unavailable.                          *)
(***************************************************************************)
C11_IconNeverFailsOutward ==
    \A r \in Runs :
        /\ fig[r] # None =>
             /\ Len(IconCalls(r)) = Len(fig[r].artists)
             /\ \A k \in 1..Len(fig[r].artists) :
                  LET img == fig[r].artists[k].img
                      answer == iconSrc[r][IconIndex(results[r][k].icon)]
                  IN  /\ img.kind = IF answer = "png" THEN "fetched" ELSE "placeholder"
                      /\ img.size = <<120, 120>>
                      /\ img.kind = "placeholder" => img.rgba = <<200, 200, 200, 60>>
        /\ IconCalls(r) # <<>> /\ Last(calls[r]).api = "icon" =>
             \/ pc[r] \in {"icon", "savefig", "savefig_write", "close", "upload"}
             \/ pc[r] = "except" /\ err[r] = "OSError"
        /\ cdn[r] # None /\ cdn[r] # Torn => Len(cdn[r].artists) = NumSymbols

\* All six icons were undecodable, and the run uploaded its
\* report with six placeholders and delivered the image.
C11_Witness ==
    \E r \in Runs :
        /\ \A k \in 1..NumSymbols : iconSrc[r][k] = "garbage"
        /\ cdn[r] # None
        /\ \A k \in 1..NumSymbols : cdn[r].artists[k].img.kind = "placeholder"
        /\ pc[r] = "done" /\ http[r] = "200"
        /\ \E k \in 1..Len(calls[r]) :
              calls[r][k].api = "push_message" /\ calls[r][k].msg.type = "image"
                 /\ calls[r][k].ok

\* The calls of the run's log that carry a message to the messaging platform.
Messages(r) == SelectSeq(calls[r], LAMBDA c : c.api \in {"reply_message", "push_message"})

(***************************************************************************)
(* C12.  In every run at most one call is addressed to the run's reply     *)
(* token: it is the reply_message that carries the acknowledgement and it  *)
(* is the first message of the run.  Every message after it, the image or  *)
(* the failure text, is a push_message addressed to the sender's user id   *)
(* and not to a reply token.                                               *)
(***************************************************************************)
C12_ReplyTokenOnlyForAck ==
    \A r \in Runs :
        LET m == Messages(r)
        IN  \A k \in 1..Len(m) :
              /\ k = 1 => /\ m[k].api = "reply_message"
                          /\ m[k].to = <<"token", r>>
                          /\ m[k].msg = [type |-> "text", text |-> AckText]
              /\ k > 1 => /\ m[k].api = "push_message"
                          /\ m[k].msg.type \in {"image", "text"}
                          /\ m[k].to = <<"user", r>>
                          /\ \A o \in Runs : m[k].to # <<"token", o>>

\* A run acknowledged, then pushed the image (which raised), then pushed the
\* failure text: three messages, the reply token used for the first only.
C12_Witness ==
    \E r \in Runs :
        LET m == Messages(r)
        IN  /\ Len(m) = 3
            /\ m[1].to = <<"token", r>>
            /\ m[2].msg.type = "image" /\ m[2].to = <<"user", r>>
            /\ m[3].msg.type = "text" /\ m[3].to = <<"user", r>>

\* The stage of the run an outbound call belongs to: 0 acknowledgement,
\* 1 aggregate, 2 render, 3 publish, 4 deliver, 5 failure text.
StageOf(c) ==
    CASE c.api = "reply_message" -> 0
      [] c.api = "quote" -> 1
      [] c.api = "icon" -> 2
      [] c.api = "upload" -> 3
      [] c.api = "push_message" /\ c.msg.type = "image" -> 4
      [] OTHER -> 5

\* The run delivered its image, or pushed its failure text.
Delivered(r) ==
    \E k \in 1..Len(calls[r]) : StageOf(calls[r][k]) = 4 /\ calls[r][k].ok

Failed(r) == \E k \in 1..Len(calls[r]) : StageOf(calls[r][k]) = 5

\* In one run: the image push comes after that run's successful upload and
\* carries the URL that upload returned; the calls are in stage order, the
\* publisher being called at most once; Delivered and Failed end the log.
C13_StagesInOrder ==
    \A r \in Runs : \A k \in 1..Len(calls[r]) :
        LET c == calls[r][k]
        IN  /\ StageOf(c) = 4 =>
                 /\ \E j \in 1..(k - 1) : calls[r][j].api = "upload" /\ calls[r][j].ok
                 /\ c.msg.url = <<"secure_url", r>>
                 /\ c.msg.url = img_url[r]
            /\ \A j \in 1..(k - 1) :
                 /\ StageOf(calls[r][j]) <= StageOf(c)
                 /\ StageOf(c) \in {0, 3, 4, 5} => StageOf(calls[r][j]) # StageOf(c)
            /\ (StageOf(c) = 4 /\ c.ok) \/ StageOf(c) = 5 =>
                 /\ k = Len(calls[r])
                 /\ HandlerOver(r)

(***************************************************************************)
(* C13.  A run pushes an image message only after its own upload has       *)
(* returned, with the URL that upload returned.  The calls of a run are in *)
(* the order aggregate, render, publish, deliver, none of upload, image    *)
(* push and failure text being made twice; after the delivered image or    *)
(* the failure text the run makes no call at all.  A run that is over      *)
(* stays over, and a run that arrives after the other runs are over is not *)
(* touched by what they left behind (the file line_report.png, a figure    *)
(* left open): what it uploads is the figure it drew itself.               *)
(***************************************************************************)
C13_PublishThenDeliverThenStop ==
    /\ []C13_StagesInOrder
    /\ \A b \in Runs :
          []((req[b] = None /\ \A a \in Runs \ {b} : pc[a] = "done") =>
               [](/\ \A a \in Runs \ {b} : pc[a] = "done"
                  /\ (cdn[b] # None => cdn[b] = fig[b])))

\* The first run failed in savefig and left its figure open and nothing at
\* the publisher; the other run published its own figure and delivered the
\* image with the URL of its upload.
C13_Witness ==
    \E a, b \in Runs :
        /\ a # b
        /\ pc[a] = "done" /\ err[a] = "OSError" /\ Failed(a) /\ figstack = <<a>>
        /\ pc[b] = "done" /\ Delivered(b)
        /\ cdn[b] = fig[b] /\ Len(fig[b].artists) = NumSymbols
        /\ Last(calls[b]).msg.url = <<"secure_url", b>>

(***************************************************************************)
(* C14.  Two runs whose quote answers and icon answers are the same for    *)
(* every instrument publish the same artifact.                             *)
(***************************************************************************)
C14_SameAnswersSameArtifact ==
    \A a, b \in Runs :
        (/\ quoteSrc[a] = quoteSrc[b]
         /\ iconSrc[a] = iconSrc[b]
         /\ cdn[a] # None
         /\ cdn[b] # None) => cdn[a] = cdn[b]

\* The positions of the run's log where a quote of the instrument is requested.
QuoteRequests(r, sym) ==
    {k \in 1..Len(calls[r]) : calls[r][k].api = "quote" /\ calls[r][k].sym = sym}

(***************************************************************************)
(* C15.  A run never requests the quote of an instrument twice, whether    *)
(* the request succeeded or failed: the instruments the quote loop has     *)
(* been through have one request each, the others none, and once the loop  *)
(* is over (the table is drawn, or any later step is reached) every one of *)
(* the six instruments has exactly one request.                            *)
(***************************************************************************)
C15_OneQuoteRequestPerInstrument ==
    \A r \in Runs : \A i \in 1..NumSymbols :
        LET n == Cardinality(QuoteRequests(r, symbols_info[i].sym))
        IN  /\ n = IF i <= qi[r] THEN 1 ELSE 0
            /\ Len(results[r]) = qi[r]
            /\ (fig[r] # None \/ pc[r] \in {"draw", "icon", "savefig", "savefig_write",
                                           "close", "upload", "push_image", "except"})
                  => n = 1

\* Every one of the six quote requests timed out; the run made six quote
\* requests, none of them served, and went on to deliver its report.
C15_Witness ==
    \E r \in Runs :
        /\ \A i \in 1..NumSymbols : quoteSrc[r][i] = Timeout
        /\ Len(SelectSeq(calls[r], LAMBDA c : c.api = "quote" /\ ~c.ok)) = NumSymbols
        /\ pc[r] = "done" /\ http[r] = "200" /\ cdn[r] # None

(***************************************************************************)
(* C16.  A request whose signature is invalid is answered with HTTP 400    *)
(* and nothing else happens for it, whatever its text: no reply_message,   *)
(* no push_message, no quote, icon or upload call, no row, no figure, no   *)
(* file written, nothing published, and handle_message is never entered.   *)
(***************************************************************************)
C16_InvalidSignatureRejected ==
    \A r \in Runs :
        (req[r] # None /\ ~req[r].sig_ok) =>
            /\ pc[r] \in {"callback", "done"}
            /\ http[r] = IF pc[r] = "done" THEN "400" ELSE NoStatus
            /\ calls[r] = <<>>
            /\ quoteSrc[r] = AllOf(NoAnswer) /\ iconSrc[r] = AllOf(NoIcon)
            /\ qi[r] = 0 /\ results[r] = <<>>
            /\ fig[r] = None /\ snap[r] = None /\ cdn[r] = None
            /\ r \notin file.writers
            /\ img_url[r] = NoUrl /\ err[r] = NoError

\* A request carrying the keyword with an invalid signature was answered 400.
C16_Witness ==
    \E r \in Runs :
        /\ req[r] # None /\ ~req[r].sig_ok
        /\ HasKeyword(req[r].event.text)
        /\ pc[r] = "done" /\ http[r] = "400"

\* The run's acknowledgement was sent and raised.
AckRaised(r) == \E k \in 1..Len(calls[r]) : calls[r][k].api = "reply_message" /\ ~calls[r][k].ok

(***************************************************************************)
(* C17.  When reply_message raises, that call is the only outbound call    *)
(* the run ever makes: no quote, icon or upload call and no push_message.  *)
(* The exception leaves handle_message (the request is answered 500); no   *)
(* row is collected, no figure is drawn, nothing is written or published.  *)
(***************************************************************************)
C17_FailedAckStopsRun ==
    \A r \in Runs :
        AckRaised(r) =>
            /\ Len(calls[r]) = 1
            /\ pc[r] \in {"raise", "done"}
            /\ pc[r] = "done" => http[r] = "500"
            /\ qi[r] = 0 /\ results[r] = <<>>
            /\ fig[r] = None /\ cdn[r] = None /\ r \notin file.writers
            /\ img_url[r] = NoUrl /\ err[r] = NoError

\* A run whose acknowledgement raised is over, answered 500, having made
\* that one call, while the other run went through its pipeline.
C17_Witness ==
    \E r, o \in Runs :
        /\ AckRaised(r) /\ pc[r] = "done" /\ http[r] = "500"
        /\ o # r /\ cdn[o] # None

(***************************************************************************)
(* C18.  The outbound calls of one run come one after another in a fixed   *)
(* order: after the acknowledgement the six quote requests in the order of *)
(* symbols_info, then the six icon requests in the order of the rows, then *)
(* the upload, then the image push.  No icon is requested before the sixth *)
(* quote request is over; the upload is made only when savefig has written *)
(* and closed line_report.png with the run's figure, icons included; the   *)
(* image is pushed only when the upload has returned.                      *)
(***************************************************************************)
C18_NetworkPhasesInOrder ==
    \A r \in Runs : \A k \in 1..Len(calls[r]) :
        LET c == calls[r][k]
        IN  /\ c.api = "quote" =>
                 /\ k \in 2..(NumSymbols + 1)
                 /\ c.sym = symbols_info[k - 1].sym
            /\ c.api = "icon" =>
                 /\ k \in (NumSymbols + 2)..(2 * NumSymbols + 1)
                 /\ \A j \in 2..(NumSymbols + 1) : calls[r][j].api = "quote"
                 /\ c.url = results[r][k - NumSymbols - 1].icon
                 /\ c.url = symbols_info[k - NumSymbols - 1].icon
            /\ c.api = "upload" =>
                 /\ k = 2 * NumSymbols + 2
                 /\ \A j \in (NumSymbols + 2)..(k - 1) : calls[r][j].api = "icon"
                 /\ r \notin file.writers /\ snap[r] = None
                 /\ file.data = fig[r]
                 /\ Len(file.data.artists) = NumSymbols
            /\ (c.api = "push_message" /\ c.msg.type = "image") =>
                 /\ k = 2 * NumSymbols + 3
                 /\ calls[r][k - 1].api = "upload" /\ calls[r][k - 1].ok

\* A run has made all its calls: acknowledgement, six quote requests, six
\* icon requests, the upload and the image push, fifteen calls in all.
C18_Witness ==
    \E r \in Runs :
        /\ Len(calls[r]) = 2 * NumSymbols + 3
        /\ Last(calls[r]).msg.type = "image" /\ Last(calls[r]).ok
        /\ \E i \in 1..NumSymbols : iconSrc[r][i] # "png"
        /\ pc[r] = "done"

=============================================================================
